---- MODULE Spec2Model ----
(***************************************************************************)
(* Model of src/lib/netaddress.js (NetAddress, groupKey) and               *)
(* src/lib/packets.js (types, typesByVal, VersionPacket).                  *)
(*                                                                         *)
(* Representation                                                          *)
(*   Buffer            a tuple of bytes (0..255); raw[i] of the source is  *)
(*                     At(raw, i)                                          *)
(*   String            a TLA+ string (host, hostname) or, where the code   *)
(*                     looks at the characters (agent, hex text), a tuple  *)
(*                     of character codes                                  *)
(*   Number            u16/u32 values are integers; a time is the pair of  *)
(*                     its two u32 words [hi, lo] (value hi * 2^32 + lo)   *)
(*   options / JSON    a record whose DOMAIN is the set of properties      *)
(*                     present                                             *)
(*   null / undefined  Null (where a Buffer or String is expected)         *)
(*                                                                         *)
(* bufio (BufferWriter/BufferReader) and binet (IP) are libraries outside  *)
(* the repository; they are modelled by what the calls in src/ rely on.    *)
(* Whether IP.toHostname rejects a key that is not 33 bytes long is not    *)
(* decided by the repository: both behaviours are explored (ipChecksKey).  *)
(* packets.js binds NetAddress with a destructuring require (line 9); the  *)
(* model takes the binding to be the NetAddress class of netaddress.js.    *)
(***************************************************************************)
EXTENDS Integers, Sequences, FiniteSets, TLC

VARIABLES addr, pkt, op, wire, json, ipChecksKey, gk, reg

vars == <<addr, pkt, op, wire, json, ipChecksKey, gk, reg>>

(***************************************************************************)
(* Bounds of the model                                                     *)
(***************************************************************************)
\* longest user agent drawn for a VersionPacket option set
MaxAgentLen == 2

\* bytes that follow a record in a byte source handed to read()
MaxTrail == 1

(***************************************************************************)
(* Values                                                                  *)
(***************************************************************************)
Null == << -1 >>

\* undefined where an object (options, network) is expected
Undefined == [undefined |-> TRUE]

At(buf, i) == buf[i + 1]

Fill(v, n) == [i \in 1..n |-> v]

ZERO_KEY == Fill(0, 33)

\* a public key (33 bytes, first byte 2)
KEY_A == [i \in 1..33 |-> IF i = 1 THEN 2 ELSE i]

\* a Buffer that is not 33 bytes long
KEY_SHORT == <<2, 7>>

U64(hi, lo) == [hi |-> hi, lo |-> lo]

TIME_0 == U64(0, 0)

TIME_1M == U64(0, 1000000)

\* Date.now(): milliseconds since the epoch, above 2^32
NOW_MS == U64(410, 1063408640)

Clock == {NOW_MS}

(***************************************************************************)
(* bufio: little-endian fixed-width integers                               *)
(***************************************************************************)
U8LE(n) == <<n % 256>>

U16LE(n) == <<n % 256, (n \div 256) % 256>>

U32LE(n) == <<n % 256, (n \div 256) % 256, (n \div 65536) % 256, (n \div 16777216) % 256>>

U64LE(t) == U32LE(t.lo) \o U32LE(t.hi)

Slice(data, off, n) == [i \in 1..n |-> data[off + i]]

GetU8(data, off) == data[off + 1]

GetU16(data, off) == data[off + 1] + 256 * data[off + 2]

GetU32(data, off) == data[off + 1] + 256 * data[off + 2] + 65536 * data[off + 3] + 16777216 * data[off + 4]

GetU64(data, off) == U64(GetU32(data, off + 4), GetU32(data, off))

\* a BufferReader read or seek of n bytes at off stays inside the data
Fits(data, off, n) == off + n <= Len(data)

(***************************************************************************)
(* binet (IP): the conversions and predicates NetAddress calls             *)
(***************************************************************************)
ZERO_IPV4 == Fill(0, 10) \o <<255, 255, 0, 0, 0, 0>>

LOCAL_IPV4 == Fill(0, 10) \o <<255, 255, 127, 0, 0, 1>>

ZERO_IPV6 == Fill(0, 16)

isIPv4(raw) == /\ \A i \in 0..9 : At(raw, i) = 0
               /\ At(raw, 10) = 255
               /\ At(raw, 11) = 255

\* host strings the model draws; the last is no IP address
HostStrings == {"127.0.0.1", "::ffff:7f00:1", "::", "example.com"}

\* IP.toBuffer throws on a string that is no IP address
CanParse(str) == str \in {"0.0.0.0", "127.0.0.1", "::ffff:7f00:1", "::"}

toBuffer(str) == CASE str = "0.0.0.0" -> ZERO_IPV4
                   [] str = "127.0.0.1" -> LOCAL_IPV4
                   [] str = "::ffff:7f00:1" -> LOCAL_IPV4
                   [] str = "::" -> ZERO_IPV6

RECURSIVE Groups(_, _)
Groups(raw, i) == IF i = 14 THEN ToString(At(raw, 14) * 256 + At(raw, 15))
                  ELSE ToString(At(raw, i) * 256 + At(raw, i + 1)) \o ":" \o Groups(raw, i + 2)

\* IP.toString: the canonical text of a raw address (mapped IPv4 as a
\* dotted quad, the zero address as "::")
toString(raw) == IF isIPv4(raw)
                 THEN ToString(At(raw, 12)) \o "." \o ToString(At(raw, 13)) \o "."
                      \o ToString(At(raw, 14)) \o "." \o ToString(At(raw, 15))
                 ELSE IF raw = ZERO_IPV6 THEN "::"
                 ELSE Groups(raw, 0)

normalize(str) == toString(toBuffer(str))

RECURSIVE KeyText(_)
KeyText(key) == IF key = <<>> THEN "" ELSE ToString(Head(key)) \o "." \o KeyText(Tail(key))

IsV6Text(host) == host \notin {"0.0.0.0", "127.0.0.1", "example.com"}

\* IP.toHostname: [key@]host:port, an IPv6 host in brackets, the key left
\* out when it is the zero key
toHostname(host, port, key) ==
    LET pub == IF key = ZERO_KEY THEN "" ELSE KeyText(key) \o "@"
        h   == IF IsV6Text(host) THEN "[" \o host \o "]" ELSE host
    IN pub \o h \o ":" \o ToString(port)

\* IP.toHostname called with this key throws
ToHostnameThrows(key) == ipChecksKey /\ Len(key) # 33

(***************************************************************************)
(* NetAddress (src/lib/netaddress.js).  Every method is an operator from   *)
(* the object before the call to [ok, a]: whether the call returned        *)
(* (FALSE: it threw) and the object as the call left it.                   *)
(***************************************************************************)
Has(o, f) == f \in DOMAIN o

Done(a) == [ok |-> TRUE, a |-> a]

Thrown(a) == [ok |-> FALSE, a |-> a]

\* this.hostname = IP.toHostname(this.host, this.port, this.key)
Rehost(a) == IF ToHostnameThrows(a.key) THEN Thrown(a)
             ELSE Done([a EXCEPT !.hostname = toHostname(a.host, a.port, a.key)])

\* the fields the constructor assigns before it looks at its options
NewAddr == [host |-> "0.0.0.0", port |-> 0, services |-> 0, time |-> TIME_0,
            hostname |-> "0.0.0.0:0", raw |-> ZERO_IPV4, key |-> ZERO_KEY]

PortInRange(port) == port >= 0 /\ port <= 65535

fromOptions(a, o) ==
    IF ~Has(o, "host") THEN Thrown(a)
    ELSE IF ~Has(o, "port") THEN Thrown(a)
    ELSE IF ~PortInRange(o.port) THEN Thrown(a)
    ELSE IF ~CanParse(o.host) THEN Thrown(a)
    ELSE
      LET raw == toBuffer(o.host)
          a1  == [a EXCEPT !.raw = raw, !.host = toString(raw), !.port = o.port]
          a2  == IF Has(o, "services") /\ o.services # 0
                 THEN [a1 EXCEPT !.services = o.services] ELSE a1
          a3  == IF Has(o, "time") /\ o.time # TIME_0
                 THEN [a2 EXCEPT !.time = o.time] ELSE a2
      IN IF Has(o, "key") /\ Len(o.key) # 33 THEN Thrown(a3)
         ELSE Rehost(IF Has(o, "key") THEN [a3 EXCEPT !.key = o.key] ELSE a3)

\* new NetAddress(options): the constructor's "if (options)"
construct(o) == IF o = Undefined THEN Done(NewAddr) ELSE fromOptions(NewAddr, o)

hasKey(a) == a.key # ZERO_KEY

setNull(a) == Rehost([a EXCEPT !.raw = ZERO_IPV4, !.host = "0.0.0.0", !.key = ZERO_KEY])

setHost(a, host) ==
    IF ~CanParse(host) THEN Thrown(a)
    ELSE LET raw == toBuffer(host)
         IN Rehost([a EXCEPT !.raw = raw, !.host = toString(raw)])

\* setPort without the recomputation of hostname
setPortStale(a, port) ==
    IF ~PortInRange(port) THEN Thrown(a)
    ELSE Done([a EXCEPT !.port = port])

setPort(a, port) ==
    IF ~PortInRange(port) THEN Thrown(a)
    ELSE Rehost([a EXCEPT !.port = port])

\* setKey that also resets the host, as setNull does
setKeyResetsHost(a, key) ==
    LET k == IF key = Null THEN ZERO_KEY ELSE key
    IN IF Len(k) # 33 THEN Thrown(a)
       ELSE Rehost([a EXCEPT !.raw = ZERO_IPV4, !.host = "0.0.0.0", !.key = k])

setKey(a, key) ==
    LET k == IF key = Null THEN ZERO_KEY ELSE key
    IN IF Len(k) # 33 THEN Thrown(a)
       ELSE Rehost([a EXCEPT !.key = k])

DEFAULT_SERVICES == 0

fromHost(a, host, port, key, now) ==
    IF ~PortInRange(port) THEN Thrown(a)
    ELSE IF key # Null /\ Len(key) # 33 THEN Thrown(a)
    ELSE IF ~CanParse(host) THEN Thrown(a)
    ELSE LET raw == toBuffer(host)
         IN Rehost([a EXCEPT !.raw = raw, !.host = toString(raw), !.port = port,
                             !.services = DEFAULT_SERVICES, !.time = now,
                             !.key = IF key = Null THEN ZERO_KEY ELSE key])

\* IP.fromHostname(text) gives [host, port, key]: port 0 when the text has
\* none, key Null when the text has none.  network = Undefined: none given
\* (the static fromHostname passes none).
fromHostname(a, parsed, network, now) ==
    IF parsed.port = 0 /\ network = Undefined THEN Thrown(a)
    ELSE LET port == IF parsed.port # 0 THEN parsed.port
                     ELSE IF parsed.key # Null THEN network.brontidePort
                     ELSE network.port
         IN fromHost(a, parsed.host, port, parsed.key, now)

\* socket: [remoteAddress, remotePort] of a connected socket, or a record
\* without them (not connected)
fromSocket(a, socket, now) ==
    IF ~Has(socket, "remoteAddress") THEN Thrown(a)
    ELSE IF ~Has(socket, "remotePort") THEN Thrown(a)
    ELSE IF ~CanParse(socket.remoteAddress) THEN Thrown(a)
    ELSE fromHost(a, normalize(socket.remoteAddress), socket.remotePort, Null, now)

getSize(a) == 88

\* write(bw): the bytes appended to the writer
write(a) == U64LE(a.time) \o U32LE(a.services) \o U32LE(0) \o U8LE(0) \o a.raw
            \o Fill(0, 20) \o U16LE(a.port) \o a.key

\* read(br), the reader at offset off of data: [ok, a, off] with off the
\* reader's offset when the call ended
read(a, data, off) ==
    IF ~Fits(data, off, 8) THEN [ok |-> FALSE, a |-> a, off |-> off]
    ELSE LET a1 == [a EXCEPT !.time = GetU64(data, off)] IN
    IF ~Fits(data, off + 8, 4) THEN [ok |-> FALSE, a |-> a1, off |-> off + 8]
    ELSE LET a2 == [a1 EXCEPT !.services = GetU32(data, off + 8)] IN
    IF ~Fits(data, off + 12, 4) THEN [ok |-> FALSE, a |-> a2, off |-> off + 12]
    ELSE IF ~Fits(data, off + 16, 1) THEN [ok |-> FALSE, a |-> a2, off |-> off + 16]
    ELSE LET isNew == GetU8(data, off + 16) = 0 IN
    IF isNew /\ ~Fits(data, off + 17, 16) THEN [ok |-> FALSE, a |-> a2, off |-> off + 17]
    ELSE LET a3 == [a2 EXCEPT !.raw = IF isNew THEN Slice(data, off + 17, 16)
                                      ELSE Fill(0, 16)]
             at == IF isNew THEN off + 33 ELSE off + 17
             n  == IF isNew THEN 20 ELSE 36 IN
    IF ~Fits(data, at, n) THEN [ok |-> FALSE, a |-> a3, off |-> at]
    ELSE IF ~Fits(data, at + n, 2) THEN [ok |-> FALSE, a |-> a3, off |-> at + n]
    ELSE LET a4 == [a3 EXCEPT !.port = GetU16(data, at + n)] IN
    IF ~Fits(data, at + n + 2, 33) THEN [ok |-> FALSE, a |-> a4, off |-> at + n + 2]
    ELSE LET a5 == [a4 EXCEPT !.key = Slice(data, at + n + 2, 33), !.host = toString(a3.raw)]
             r  == Rehost(a5)
         IN [ok |-> r.ok, a |-> r.a, off |-> at + n + 35]

\* Buffer.toString('hex') and Buffer.from(text, 'hex'); hex text is the
\* tuple of its digits' values
toHex(buf) == [i \in 1..(2 * Len(buf)) |->
                 IF i % 2 = 1 THEN buf[(i + 1) \div 2] \div 16 ELSE buf[i \div 2] % 16]

fromHex(text) == [i \in 1..(Len(text) \div 2) |-> 16 * text[2 * i - 1] + text[2 * i]]

getJSON(a) == [host |-> a.host, port |-> a.port, services |-> a.services,
               time |-> a.time, key |-> toHex(a.key)]

\* n >>> 0 of a non-negative integer: its low 32 bits
ToUint32(t) == U64(0, t.lo)

\* (n >>> 0) === n for an integer n held in one word
IsUint32(n) == n >= 0

fromJSON(a, j) ==
    IF (j.port % 65536) # j.port THEN Thrown(a)
    ELSE IF ~IsUint32(j.services) THEN Thrown(a)
    ELSE IF ToUint32(j.time) # j.time THEN Thrown(a)
    ELSE IF j.key = Null THEN Thrown(a)
    ELSE IF ~CanParse(j.host) THEN Thrown(a)
    ELSE Rehost([a EXCEPT !.raw = toBuffer(j.host), !.host = j.host, !.port = j.port,
                          !.services = j.services, !.time = j.time,
                          !.key = fromHex(j.key)])

(***************************************************************************)
(* Inputs the callers supply                                               *)
(***************************************************************************)
Ports == {0, 8333, 65536, -1}

Keys == {Null, ZERO_KEY, KEY_A, KEY_SHORT}

AddrOptions ==
    { [host |-> "127.0.0.1", port |-> 8333],
      [host |-> "::ffff:7f00:1", port |-> 65535, services |-> 1, time |-> TIME_1M, key |-> KEY_A],
      [host |-> "0.0.0.0", port |-> 0, services |-> 0, time |-> TIME_0],
      [host |-> "127.0.0.1", port |-> 65536],
      [host |-> "127.0.0.1", port |-> -1, key |-> KEY_A],
      [host |-> "127.0.0.1", port |-> 8333, key |-> KEY_SHORT],
      [host |-> "example.com", port |-> 8333],
      [port |-> 8333] }

HostArgs ==
    { [host |-> "127.0.0.1", port |-> 8333, key |-> Null],
      [host |-> "::ffff:7f00:1", port |-> 0, key |-> KEY_A],
      [host |-> "127.0.0.1", port |-> 65536, key |-> Null],
      [host |-> "127.0.0.1", port |-> -1, key |-> KEY_A],
      [host |-> "127.0.0.1", port |-> 8333, key |-> KEY_SHORT],
      [host |-> "example.com", port |-> 8333, key |-> Null] }

\* texts handed to fromHostname, each with what IP.fromHostname parses
Hostnames ==
    { [text |-> "127.0.0.1:8333", host |-> "127.0.0.1", port |-> 8333, key |-> Null],
      [text |-> "127.0.0.1", host |-> "127.0.0.1", port |-> 0, key |-> Null],
      [text |-> KeyText(KEY_A) \o "@127.0.0.1", host |-> "127.0.0.1", port |-> 0, key |-> KEY_A] }

Networks == {Undefined, [port |-> 8333, brontidePort |-> 65535]}

Sockets == { [remoteAddress |-> "::ffff:7f00:1", remotePort |-> 8333],
             [remoteAddress |-> "127.0.0.1", remotePort |-> 65536],
             [connecting |-> TRUE] }

JsonInputs ==
    { [host |-> "127.0.0.1", port |-> 8333, services |-> 1, time |-> TIME_1M, key |-> toHex(KEY_A)],
      [host |-> "::ffff:7f00:1", port |-> 0, services |-> 0, time |-> TIME_0, key |-> toHex(ZERO_KEY)],
      [host |-> "127.0.0.1", port |-> 8333, services |-> 0, time |-> NOW_MS, key |-> toHex(ZERO_KEY)],
      [host |-> "127.0.0.1", port |-> 65536, services |-> 0, time |-> TIME_0, key |-> toHex(KEY_SHORT)],
      [host |-> "127.0.0.1", port |-> 65535, services |-> 0, time |-> TIME_0, key |-> toHex(KEY_SHORT)],
      [host |-> "127.0.0.1", port |-> 0, services |-> -1, time |-> TIME_0, key |-> toHex(ZERO_KEY)],
      [host |-> "127.0.0.1", port |-> 0, services |-> 0, time |-> TIME_0, key |-> Null],
      [host |-> "example.com", port |-> 0, services |-> 0, time |-> TIME_0, key |-> toHex(ZERO_KEY)] }

\* the discriminant bytes a byte source may carry
Discriminants == {0, 1}

NoWire == [kind |-> "none", bytes |-> <<>>]

(***************************************************************************)
(* The NetAddress under test (specification Spec).  A method that throws   *)
(* leaves addr as the code left it when it threw.  wire holds what the     *)
(* latest call wrote and json what the latest call returned; any other     *)
(* call drops them.  A static factory is New followed by the method.       *)
(* op describes the latest call: its name, whether it returned (ok), its   *)
(* arguments (arg), and clean: no call has thrown on this object since it  *)
(* was constructed.                                                        *)
(***************************************************************************)
Others == <<pkt, ipChecksKey, gk, reg>>

Call(name, r) ==
    /\ addr' = r.a
    /\ op' = [name |-> name, ok |-> r.ok, clean |-> op.clean /\ r.ok]
    /\ wire' = NoWire
    /\ json' = Undefined
    /\ UNCHANGED Others

CallWith(name, r, arg) ==
    /\ addr' = r.a
    /\ op' = [name |-> name, ok |-> r.ok, clean |-> op.clean /\ r.ok, arg |-> arg]
    /\ wire' = NoWire
    /\ json' = Undefined
    /\ UNCHANGED Others

New ==
    /\ addr' = construct(Undefined).a
    /\ op' = [name |-> "new", ok |-> TRUE, clean |-> TRUE]
    /\ wire' = NoWire
    /\ json' = Undefined
    /\ UNCHANGED Others

FromOptions == \E o \in AddrOptions : CallWith("fromOptions", fromOptions(addr, o), o)

FromHost ==
    \E h \in HostArgs, now \in Clock :
      CallWith("fromHost", fromHost(addr, h.host, h.port, h.key, now), h)

FromHostname ==
    \E h \in Hostnames, network \in Networks, now \in Clock :
      Call("fromHostname", fromHostname(addr, h, network, now))

FromSocket ==
    \E socket \in Sockets, now \in Clock : Call("fromSocket", fromSocket(addr, socket, now))

SetNull == Call("setNull", setNull(addr))

SetHost == \E host \in HostStrings : Call("setHost", setHost(addr, host))

SetPort == \E port \in Ports : CallWith("setPort", setPort(addr, port), [port |-> port])

SetKey == \E key \in Keys : CallWith("setKey", setKey(addr, key), [key |-> key])

Write ==
    /\ wire' = [kind |-> "addr", bytes |-> write(addr)]
    /\ op' = [name |-> "write", ok |-> TRUE, clean |-> op.clean]
    /\ json' = Undefined
    /\ UNCHANGED <<addr, Others>>

\* read from a source that holds the bytes just written, with the
\* discriminant byte the sender chose and trail more bytes behind them
Read ==
    /\ wire.kind = "addr"
    /\ \E d \in Discriminants, trail \in 0..MaxTrail :
         LET data == [wire.bytes EXCEPT ![17] = d] \o Fill(170, trail)
             r    == read(addr, data, 0)
         IN /\ addr' = r.a
            /\ op' = [name |-> "read", ok |-> r.ok, clean |-> op.clean /\ r.ok,
                      arg |-> [data |-> data, off |-> r.off]]
            /\ wire' = NoWire
            /\ json' = Undefined
            /\ UNCHANGED Others

GetJSON ==
    /\ json' = getJSON(addr)
    /\ op' = [name |-> "getJSON", ok |-> TRUE, clean |-> op.clean]
    /\ wire' = NoWire
    /\ UNCHANGED <<addr, Others>>

FromJSON ==
    \E j \in JsonInputs \cup (IF json = Undefined THEN {} ELSE {json}) :
      CallWith("fromJSON", fromJSON(addr, j), [port |-> j.port, key |-> j.key])

Init ==
    /\ addr = NewAddr
    /\ pkt = Undefined
    /\ op = [name |-> "new", ok |-> TRUE, clean |-> TRUE]
    /\ wire = NoWire
    /\ json = Undefined
    /\ ipChecksKey \in BOOLEAN
    /\ gk = Undefined
    /\ reg = Undefined

Next ==
    \/ New
    \/ FromOptions
    \/ FromHost
    \/ FromHostname
    \/ FromSocket
    \/ SetNull
    \/ SetHost
    \/ SetPort
    \/ SetKey
    \/ Write
    \/ Read
    \/ GetJSON
    \/ FromJSON

Spec == Init /\ [][Next]_vars

(***************************************************************************)
(* Claims about NetAddress (Spec)                                          *)
(***************************************************************************)
Fresh(a) == a.hostname = toHostname(a.host, a.port, a.key)

\* C1: on a NetAddress reached through public operations that all returned,
\* the cached hostname is toHostname(host, port, key) of its current fields.
C1_HostnameFresh == op.clean => Fresh(addr)

\* C1 witness: setPort has returned on a record with a key and the hostname
\* carries the new port.
C1_Witness ==
    /\ op.name = "setPort" /\ op.clean
    /\ addr.port = 8333 /\ addr.key = KEY_A
    /\ addr.hostname = KeyText(KEY_A) \o "@127.0.0.1:8333"

(* ---- C5 ---- *)
EntryPoints == {"fromOptions", "fromHost", "setPort", "setKey", "fromJSON"}

\* the port the caller gave is outside 0..65535
BadPort == Has(op.arg, "port") /\ ~PortInRange(op.arg.port)

\* the caller gave a key (for fromJSON: its hex text) that is not 33 bytes
BadKey ==
    /\ Has(op.arg, "key")
    /\ op.arg.key # Null
    /\ Len(IF op.name = "fromJSON" THEN fromHex(op.arg.key) ELSE op.arg.key) # 33

\* C5: fromOptions, fromHost, setPort, setKey and fromJSON throw when the
\* port is outside 0..65535 or a key is given that is not 33 bytes long, so a
\* call of theirs that returns leaves a port in range and a 33-byte key.
C5_Validated ==
    op.name \in EntryPoints =>
      /\ (BadPort \/ BadKey) => ~op.ok
      /\ op.clean => PortInRange(addr.port) /\ Len(addr.key) = 33

(* ---- C6 ---- *)
Returned(name) == op'.name = name /\ op'.ok

Keeps(fields) == \A f \in fields : addr'[f] = addr[f]

\* C6 as stated: setHost and setNull change the raw address only, setPort the
\* port only, setKey the key only (and the derived host and hostname); every
\* other stored field keeps its value.
C6_OneFieldEach ==
    [][ /\ Returned("setHost") => Keeps({"port", "key", "time", "services"})
        /\ Returned("setNull") => Keeps({"port", "key", "time", "services"})
        /\ Returned("setPort") => Keeps({"raw", "host", "key", "time", "services"})
        /\ Returned("setKey") => Keeps({"raw", "host", "port", "time", "services"}) ]_vars

\* C6 amended: as stated for setHost, setPort and setKey; setNull sets the raw
\* address to the zero IPv4 address and also the key to the zero key, and
\* keeps port, time and services.
C6_Frame ==
    [][ /\ Returned("setHost") => Keeps({"port", "key", "time", "services"})
        /\ Returned("setNull") => /\ Keeps({"port", "time", "services"})
                                  /\ addr'.raw = ZERO_IPV4
                                  /\ addr'.key = ZERO_KEY
        /\ Returned("setPort") => Keeps({"raw", "host", "key", "time", "services"})
        /\ Returned("setKey") => Keeps({"raw", "host", "port", "time", "services"}) ]_vars

\* C6 witness: setNull has returned on a record that keeps a port, a time and
\* services that are not the defaults.
C6_Witness ==
    /\ op.name = "setNull" /\ op.ok
    /\ addr.port = 65535 /\ addr.services = 1 /\ addr.time = TIME_1M
    /\ addr.raw = ZERO_IPV4 /\ addr.key = ZERO_KEY

(* ---- C9 ---- *)
\* C9: write() of a record reached through calls that all returned emits 88
\* bytes (getSize()), the discriminant byte 0 and 20 zero bytes of padding;
\* read() that returns has consumed 88 bytes in either branch, and with a
\* non-zero discriminant the raw address is 16 zero bytes while port and key
\* come from offsets 53..54 and 55..87.
C9_FixedSize ==
    /\ (op.name = "write" /\ op.clean) =>
         /\ Len(wire.bytes) = 88
         /\ getSize(addr) = 88
         /\ At(wire.bytes, 16) = 0
         /\ \A i \in 33..52 : At(wire.bytes, i) = 0
    /\ (op.name = "read" /\ op.ok) =>
         /\ op.arg.off = 88
         /\ At(op.arg.data, 16) # 0 => addr.raw = Fill(0, 16)
         /\ addr.port = GetU16(op.arg.data, 53)
         /\ addr.key = Slice(op.arg.data, 55, 33)

(* ---- C3, C4 (NetAddress) ---- *)
SameFields(a, b, fields) == \A f \in fields : a[f] = b[f]

\* C3 (NetAddress on its own): reading the bytes write() emitted into a new
\* NetAddress gives back time, services, raw address, host, port and key.
C3_AddrRoundTrip ==
    (op.name = "write" /\ op.clean) =>
      LET r == read(NewAddr, wire.bytes, 0)
      IN /\ r.ok
         /\ SameFields(r.a, addr, {"time", "services", "raw", "host", "port", "key"})
         /\ hasKey(r.a) = hasKey(addr)

\* C4: fromJSON(getJSON(r)) returns and gives back host, raw address, port,
\* services, time, key and hostname of r.
C4_JsonRoundTrip ==
    (op.name = "getJSON" /\ op.clean) =>
      LET r == fromJSON(NewAddr, json)
      IN /\ r.ok
         /\ SameFields(r.a, addr, {"host", "raw", "port", "services", "time", "key", "hostname"})

(***************************************************************************)
(* Packet type registry (src/lib/packets.js)                               *)
(***************************************************************************)
\* the properties of the types object, in the order of the source
typeEntries ==
    << <<"VERSION", 0>>, <<"VERACK", 1>>, <<"PING", 2>>, <<"PONG", 3>>,
       <<"GETADDR", 4>>, <<"ADDR", 5>>, <<"INV", 6>>, <<"GETDATA", 7>>,
       <<"NOTFOUND", 8>>, <<"GETBLOCKS", 9>>, <<"GETHEADERS", 10>>, <<"HEADERS", 11>>,
       <<"SENDHEADERS", 12>>, <<"BLOCK", 13>>, <<"TX", 14>>, <<"REJECT", 15>>,
       <<"MEMPOOL", 16>>, <<"FILTERLOAD", 17>>, <<"FILTERADD", 18>>,
       <<"FILTERCLEAR", 19>>, <<"MERKLEBLOCK", 20>>, <<"FEEFILTER", 21>>,
       <<"SENDCMPCT", 22>>, <<"CMPCTBLOCK", 23>>, <<"GETBLOCKTXN", 24>>,
       <<"BLOCKTXN", 25>>, <<"GETPROOF", 26>>, <<"PROOF", 27>>, <<"CLAIM", 28>>,
       <<"AIRDROP", 29>>, <<"UNKNOWN", 30>>, <<"INTERNAL", 31>>, <<"DATA", 32>> >>

typeNames == {typeEntries[i][1] : i \in DOMAIN typeEntries}

\* types[name] of the source
types ==
    [n \in typeNames |->
       typeEntries[CHOOSE i \in DOMAIN typeEntries : typeEntries[i][1] = n][2]]

\* typesByVal with its last two names in the other order
typesByValSwapped ==
    [i \in 1..Len(typeEntries) |->
       IF i = 32 THEN "DATA" ELSE IF i = 33 THEN "INTERNAL" ELSE typeEntries[i][1]]

\* typesByVal[i] of the source is At(typesByVal, i)
typesByVal ==
    << "VERSION", "VERACK", "PING", "PONG", "GETADDR", "ADDR", "INV", "GETDATA",
       "NOTFOUND", "GETBLOCKS", "GETHEADERS", "HEADERS", "SENDHEADERS", "BLOCK", "TX",
       "REJECT", "MEMPOOL", "FILTERLOAD", "FILTERADD", "FILTERCLEAR", "MERKLEBLOCK",
       "FEEFILTER", "SENDCMPCT", "CMPCTBLOCK", "GETBLOCKTXN", "BLOCKTXN", "GETPROOF",
       "PROOF", "CLAIM", "AIRDROP", "UNKNOWN", "INTERNAL", "DATA" >>

(***************************************************************************)
(* VersionPacket (src/lib/packets.js)                                      *)
(***************************************************************************)
PROTOCOL_VERSION == 70015

LOCAL_SERVICES == 0

\* common has no ZERO_NONCE and no USER_AGENT property: both read as undefined
ZERO_NONCE == Null

USER_AGENT == Null

\* the fields the constructors of Packet and VersionPacket assign before the
\* options are looked at
NewPacket(now) ==
    [type |-> types["VERSION"], version |-> PROTOCOL_VERSION, services |-> LOCAL_SERVICES,
     time |-> now, remote |-> construct(Undefined).a, nonce |-> ZERO_NONCE,
     agent |-> USER_AGENT, height |-> 0, noRelay |-> FALSE]

\* "if (options.f != null) this.f = options.f"
Merge(p, o, f) == IF Has(o, f) THEN [p EXCEPT ![f] = o[f]] ELSE p

\* "if (options.f) this.f = options.f" for a Buffer or a String: an empty
\* string is falsy
MergeTruthy(p, o, f) == IF Has(o, f) /\ o[f] # <<>> THEN [p EXCEPT ![f] = o[f]] ELSE p

pktFromOptions(p, o) ==
    LET p1 == Merge(Merge(Merge(p, o, "version"), o, "services"), o, "time")
        r  == IF Has(o, "remote") THEN fromOptions(p1.remote, o.remote) ELSE Done(p1.remote)
        p2 == [p1 EXCEPT !.remote = r.a]
    IN IF ~r.ok THEN Thrown(p2)
       ELSE Done(Merge(Merge(MergeTruthy(MergeTruthy(p2, o, "nonce"), o, "agent"),
                             o, "height"), o, "noRelay"))

pktConstruct(o, now) ==
    IF o = Undefined THEN Done(NewPacket(now)) ELSE pktFromOptions(NewPacket(now), o)

\* getSize(): [ok, size]; this.agent.length throws when agent is undefined
pktGetSize(p) ==
    IF p.agent = Null THEN [ok |-> FALSE, size |-> 20 + getSize(p.remote) + 8 + 1]
    ELSE [ok |-> TRUE, size |-> 20 + getSize(p.remote) + 8 + 1 + Len(p.agent) + 5]

\* write(bw): [ok, bytes] with the bytes appended before the call ended;
\* writeBytes(undefined) and undefined.length throw
pktWrite(p) ==
    LET head == U32LE(p.version) \o U32LE(p.services) \o U32LE(0) \o U64LE(p.time)
                \o write(p.remote)
    IN IF p.nonce = Null THEN [ok |-> FALSE, bytes |-> head]
       ELSE IF p.agent = Null THEN [ok |-> FALSE, bytes |-> head \o p.nonce]
       ELSE [ok |-> TRUE,
             bytes |-> head \o p.nonce \o U8LE(Len(p.agent)) \o p.agent
                       \o U32LE(p.height) \o U8LE(IF p.noRelay THEN 1 ELSE 0)]

\* read(br): [ok, a, off] as for NetAddress
pktRead(p, data, off) ==
    IF ~Fits(data, off, 4) THEN [ok |-> FALSE, a |-> p, off |-> off]
    ELSE LET p1 == [p EXCEPT !.version = GetU32(data, off)] IN
    IF ~Fits(data, off + 4, 4) THEN [ok |-> FALSE, a |-> p1, off |-> off + 4]
    ELSE LET p2 == [p1 EXCEPT !.services = GetU32(data, off + 4)] IN
    IF ~Fits(data, off + 8, 4) THEN [ok |-> FALSE, a |-> p2, off |-> off + 8]
    ELSE IF ~Fits(data, off + 12, 8) THEN [ok |-> FALSE, a |-> p2, off |-> off + 12]
    ELSE LET p3 == [p2 EXCEPT !.time = GetU64(data, off + 12)]
             r  == read(p3.remote, data, off + 20)
             p4 == [p3 EXCEPT !.remote = r.a] IN
    IF ~r.ok THEN [ok |-> FALSE, a |-> p4, off |-> r.off]
    ELSE IF ~Fits(data, r.off, 8) THEN [ok |-> FALSE, a |-> p4, off |-> r.off]
    ELSE LET p5 == [p4 EXCEPT !.nonce = Slice(data, r.off, 8)] IN
    IF ~Fits(data, r.off + 8, 1) THEN [ok |-> FALSE, a |-> p5, off |-> r.off + 8]
    ELSE LET n  == GetU8(data, r.off + 8)
             at == r.off + 9 IN
    IF ~Fits(data, at, n) THEN [ok |-> FALSE, a |-> p5, off |-> at]
    ELSE LET p6 == [p5 EXCEPT !.agent = Slice(data, at, n)] IN
    IF ~Fits(data, at + n, 4) THEN [ok |-> FALSE, a |-> p6, off |-> at + n]
    ELSE LET p7 == [p6 EXCEPT !.height = GetU32(data, at + n)] IN
    IF ~Fits(data, at + n + 4, 1) THEN [ok |-> FALSE, a |-> p7, off |-> at + n + 4]
    ELSE [ok |-> TRUE, a |-> [p7 EXCEPT !.noRelay = (GetU8(data, at + n + 4) = 1)],
          off |-> at + n + 5]

(***************************************************************************)
(* The VersionPacket under test (specification SpecPacket)                 *)
(***************************************************************************)
NONCE_A == <<1, 2, 3, 4, 5, 6, 7, 8>>

\* "test-agent"
AgentText == <<116, 101, 115, 116, 45, 97, 103, 101, 110, 116>>

Agent(n) == SubSeq(AgentText, 1, n)

PktOptions ==
    { [version |-> 70015, services |-> 1, time |-> TIME_1M,
       remote |-> [host |-> "127.0.0.1", port |-> 8333], nonce |-> NONCE_A,
       agent |-> Agent(n), height |-> 42, noRelay |-> TRUE] : n \in 0..MaxAgentLen }
    \cup
    { [agent |-> Agent(0)],
      [version |-> 0, services |-> 0, time |-> TIME_0, height |-> 0, noRelay |-> FALSE],
      [nonce |-> NONCE_A, agent |-> Agent(1)],
      [remote |-> [host |-> "::ffff:7f00:1", port |-> 65535, services |-> 1,
                   time |-> TIME_1M, key |-> KEY_A]],
      [height |-> 42, remote |-> [host |-> "127.0.0.1", port |-> 65536]],
      [version |-> 0, remote |-> [host |-> "127.0.0.1", port |-> 8333, key |-> KEY_SHORT],
       height |-> 42] }

PktOthers == <<addr, json, ipChecksKey, gk, reg>>

\* new VersionPacket(options): the new packet replaces pkt when the
\* constructor returns
PktNew ==
    \E o \in PktOptions \cup {Undefined}, now \in Clock :
      LET r == pktConstruct(o, now) IN
        /\ pkt' = IF r.ok THEN r.a ELSE pkt
        /\ op' = [name |-> "pkt.new", ok |-> r.ok, clean |-> IF r.ok THEN TRUE ELSE op.clean,
                  arg |-> o]
        /\ wire' = NoWire
        /\ UNCHANGED PktOthers

PktFromOptions ==
    \E o \in PktOptions :
      LET r == pktFromOptions(pkt, o) IN
        /\ pkt' = r.a
        /\ op' = [name |-> "pkt.fromOptions", ok |-> r.ok, clean |-> op.clean /\ r.ok,
                  arg |-> o]
        /\ wire' = NoWire
        /\ UNCHANGED PktOthers

\* pkt.remote is a public NetAddress; its fromJSON is the one call that takes
\* a host text and a key without checking them
PktRemoteFromJSON ==
    \E j \in JsonInputs :
      LET r == fromJSON(pkt.remote, j) IN
        /\ pkt' = [pkt EXCEPT !.remote = r.a]
        /\ op' = [name |-> "pkt.remote.fromJSON", ok |-> r.ok, clean |-> op.clean /\ r.ok]
        /\ wire' = NoWire
        /\ UNCHANGED PktOthers

PktGetSize ==
    LET r == pktGetSize(pkt) IN
      /\ op' = [name |-> "pkt.getSize", ok |-> r.ok, clean |-> op.clean, arg |-> r]
      /\ wire' = NoWire
      /\ UNCHANGED <<pkt, PktOthers>>

PktWrite ==
    LET r == pktWrite(pkt) IN
      /\ wire' = [kind |-> IF r.ok THEN "pkt" ELSE "none", bytes |-> r.bytes]
      /\ op' = [name |-> "pkt.write", ok |-> r.ok, clean |-> op.clean]
      /\ UNCHANGED <<pkt, PktOthers>>

PktRead ==
    /\ wire.kind = "pkt"
    /\ \E trail \in 0..MaxTrail :
         LET data == wire.bytes \o Fill(170, trail)
             r    == pktRead(pkt, data, 0)
         IN /\ pkt' = r.a
            /\ op' = [name |-> "pkt.read", ok |-> r.ok, clean |-> op.clean /\ r.ok,
                      arg |-> [data |-> data, off |-> r.off]]
            /\ wire' = NoWire
            /\ UNCHANGED PktOthers

InitPacket ==
    /\ addr = NewAddr
    /\ \E now \in Clock : pkt = NewPacket(now)
    /\ op = [name |-> "pkt.new", ok |-> TRUE, clean |-> TRUE, arg |-> Undefined]
    /\ wire = NoWire
    /\ json = Undefined
    /\ ipChecksKey \in BOOLEAN
    /\ gk = Undefined
    /\ reg = Undefined

NextPacket ==
    \/ PktNew
    \/ PktFromOptions
    \/ PktRemoteFromJSON
    \/ PktGetSize
    \/ PktWrite
    \/ PktRead

SpecPacket == InitPacket /\ [][NextPacket]_vars

(***************************************************************************)
(* Claims about VersionPacket (SpecPacket)                                 *)
(***************************************************************************)
\* C2: getSize() of a VersionPacket, whatever options built it, returns
\* 20 + 88 + 8 + 1 + agent.length + 5, the number of bytes write() emits.
C2_SizeIsWritten ==
    (op.name = "pkt.getSize" /\ op.clean) =>
      /\ op.ok
      /\ op.arg.size = 20 + 88 + 8 + 1 + Len(pkt.agent) + 5
      /\ pktWrite(pkt).ok
      /\ Len(pktWrite(pkt).bytes) = op.arg.size

\* C3 (VersionPacket): reading the bytes write() emitted into a default
\* VersionPacket gives back version, services, time, nonce, agent, height and
\* noRelay, and time, services, raw address, host, port and key of remote.
C3_PktRoundTrip ==
    (op.name = "pkt.write" /\ op.ok /\ op.clean) =>
      \A now \in Clock :
        LET r == pktRead(NewPacket(now), wire.bytes, 0)
        IN /\ r.ok
           /\ SameFields(r.a, pkt, {"version", "services", "time", "nonce", "agent",
                                    "height", "noRelay"})
           /\ SameFields(r.a.remote, pkt.remote,
                         {"time", "services", "raw", "host", "port", "key"})
           /\ hasKey(r.a.remote) = hasKey(pkt.remote)

\* C3: the wire round trip of a VersionPacket and of a NetAddress on its own
\* gives back every field.
C3_RoundTrip == C3_PktRoundTrip /\ C3_AddrRoundTrip

\* C10: new VersionPacket(O) has type VERSION, O's value in every field O
\* holds (an empty agent included), and in every other field the default:
\* version 70015, services LOCAL_SERVICES, a default NetAddress, an 8-byte
\* zero nonce, the user-agent string, height 0, noRelay false.
C10_OptionsOrDefaults ==
    (op.name = "pkt.new" /\ op.ok) =>
      LET o == op.arg IN
        /\ pkt.type = types["VERSION"]
        /\ \A f \in {"version", "services", "time", "nonce", "agent", "height", "noRelay"} :
             Has(o, f) => pkt[f] = o[f]
        /\ Has(o, "remote") => /\ pkt.remote.raw = toBuffer(o.remote.host)
                               /\ pkt.remote.port = o.remote.port
        /\ ~Has(o, "version") => pkt.version = 70015
        /\ ~Has(o, "services") => pkt.services = LOCAL_SERVICES
        /\ ~Has(o, "remote") => pkt.remote = NewAddr
        /\ ~Has(o, "nonce") => pkt.nonce = Fill(0, 8)
        /\ ~Has(o, "agent") => pkt.agent # Null
        /\ ~Has(o, "height") => pkt.height = 0
        /\ ~Has(o, "noRelay") => pkt.noRelay = FALSE

(***************************************************************************)
(* Claim about calls that throw (Spec, SpecPacket)                         *)
(***************************************************************************)
\* a NetAddress call that validates its arguments has thrown
AddrCallThrew == op'.name \in EntryPoints /\ ~op'.ok

\* NetAddress: a throwing fromOptions, fromHost, setPort, setKey or fromJSON
\* on a record no call has thrown on before leaves every field as it was
C11_AddrAtomic ==
    [][ (AddrCallThrew /\ op.clean) => (addr' = addr /\ Fresh(addr')) ]_vars

\* VersionPacket: a throwing fromOptions (its remote is invalid) leaves
\* every field of the packet as it was
C11_PktAtomic ==
    [][ (op'.name = "pkt.fromOptions" /\ ~op'.ok) => pkt' = pkt ]_vars

\* C11: when fromOptions, fromHost, setPort, setKey or fromJSON of a
\* NetAddress, or fromOptions of a VersionPacket with an invalid remote,
\* throws on a failed precondition, the record is exactly as before the
\* call: no field is updated and hostname is still
\* toHostname(host, port, key).
C11_FailureAtomic == C11_AddrAtomic /\ C11_PktAtomic


(***************************************************************************)
(* binet (IP): the classification predicates groupKey asks, as in the      *)
(* reference algorithm groupKey cites (netaddress.cpp)                     *)
(***************************************************************************)
HasPrefix(raw, prefix) == \A i \in 1..Len(prefix) : raw[i] = prefix[i]

isRFC1918(raw) ==
    /\ isIPv4(raw)
    /\ \/ At(raw, 12) = 10
       \/ At(raw, 12) = 192 /\ At(raw, 13) = 168
       \/ At(raw, 12) = 172 /\ At(raw, 13) \in 16..31

isRFC2544(raw) == isIPv4(raw) /\ At(raw, 12) = 198 /\ At(raw, 13) \in {18, 19}

isRFC3927(raw) == isIPv4(raw) /\ At(raw, 12) = 169 /\ At(raw, 13) = 254

isRFC6598(raw) == isIPv4(raw) /\ At(raw, 12) = 100 /\ At(raw, 13) \in 64..127

isRFC5737(raw) ==
    /\ isIPv4(raw)
    /\ \/ At(raw, 12) = 192 /\ At(raw, 13) = 0 /\ At(raw, 14) = 2
       \/ At(raw, 12) = 198 /\ At(raw, 13) = 51 /\ At(raw, 14) = 100
       \/ At(raw, 12) = 203 /\ At(raw, 13) = 0 /\ At(raw, 14) = 113

isRFC3849(raw) == HasPrefix(raw, <<32, 1, 13, 184>>)

isRFC3964(raw) == HasPrefix(raw, <<32, 2>>)

isRFC6052(raw) == HasPrefix(raw, <<0, 100, 255, 155, 0, 0, 0, 0, 0, 0, 0, 0>>)

isRFC4380(raw) == HasPrefix(raw, <<32, 1, 0, 0>>)

isRFC4862(raw) == HasPrefix(raw, <<254, 128, 0, 0, 0, 0, 0, 0>>)

isRFC4193(raw) == At(raw, 0) \in {252, 253}

isRFC6145(raw) == HasPrefix(raw, <<0, 0, 0, 0, 0, 0, 0, 0, 255, 255, 0, 0>>)

isRFC4843(raw) == HasPrefix(raw, <<32, 1, 0>>) /\ At(raw, 3) \in 16..31

isOnion(raw) == HasPrefix(raw, <<253, 135, 216, 126, 235, 67>>)

isLocal(raw) ==
    IF isIPv4(raw) THEN At(raw, 12) = 127 \/ At(raw, 12) = 0
    ELSE raw = Fill(0, 15) \o <<1>>

isNull(raw) ==
    IF isIPv4(raw) THEN \A i \in 12..15 : At(raw, i) = 0
    ELSE raw = ZERO_IPV6

isBroadcast(raw) == isIPv4(raw) /\ \A i \in 12..15 : At(raw, i) = 255

isValid(raw) ==
    /\ ~HasPrefix(raw, <<0, 0, 0, 0, 0, 0, 0, 255, 255>>)
    /\ ~isNull(raw)
    /\ ~isBroadcast(raw)
    /\ ~isRFC3849(raw)

isRoutable(raw) ==
    /\ isValid(raw)
    /\ ~isRFC1918(raw)
    /\ ~isRFC2544(raw)
    /\ ~isRFC3927(raw)
    /\ ~isRFC4862(raw)
    /\ ~isRFC6598(raw)
    /\ ~isRFC5737(raw)
    /\ ~(isRFC4193(raw) /\ ~isOnion(raw))
    /\ ~isRFC4843(raw)
    /\ ~isLocal(raw)

\* IP.networks
NET_NONE == 0

NET_INET4 == 1

NET_INET6 == 2

NET_ONION == 3

NET_LOCAL == 255

(***************************************************************************)
(* groupKey (src/lib/netaddress.js), one step of its control flow per      *)
(* action.  gk holds its locals: raw, type, start, bits, i, out, and ok    *)
(* for the outcome of its assertion.                                       *)
(***************************************************************************)
RECURSIVE BitOr(_, _)
BitOr(a, b) == IF a = 0 THEN b
               ELSE IF b = 0 THEN a
               ELSE 2 * BitOr(a \div 2, b \div 2) + (IF a % 2 = 1 \/ b % 2 = 1 THEN 1 ELSE 0)

RECURSIVE BitXor(_, _)
BitXor(a, b) == IF a = 0 THEN b
                ELSE IF b = 0 THEN a
                ELSE 2 * BitXor(a \div 2, b \div 2) + (IF a % 2 # b % 2 THEN 1 ELSE 0)

\* out[i] = v: a store past the end of a Buffer is dropped
Store(out, i, v) == IF i < Len(out) THEN [out EXCEPT ![i + 1] = v] ELSE out

\* the partial byte with its low bits cleared instead of set
TailByteCleared(b, bits) == b - (b % (2 ^ (8 - bits)))

\* raw[start] | ((1 << (8 - bits)) - 1)
TailByte(b, bits) == BitOr(b, 2 ^ (8 - bits) - 1)

\* the branch the if-chain takes: [type, start, bits], teredo for the branch
\* that returns at once
Classify(raw) ==
    LET d == [type |-> NET_INET6, start |-> 0, bits |-> 16, teredo |-> FALSE] IN
    IF isLocal(raw) THEN [d EXCEPT !.type = NET_LOCAL, !.bits = 0]
    ELSE IF ~isRoutable(raw) THEN [d EXCEPT !.type = NET_NONE, !.bits = 0]
    ELSE IF isIPv4(raw) \/ isRFC6145(raw) \/ isRFC6052(raw)
      THEN [d EXCEPT !.type = NET_INET4, !.start = 12]
    ELSE IF isRFC3964(raw) THEN [d EXCEPT !.type = NET_INET4, !.start = 2]
    ELSE IF isRFC4380(raw) THEN [d EXCEPT !.teredo = TRUE]
    ELSE IF isOnion(raw) THEN [d EXCEPT !.type = NET_ONION, !.start = 6, !.bits = 4]
    ELSE IF HasPrefix(raw, <<32, 1, 4, 112>>) THEN [d EXCEPT !.bits = 36]
    ELSE [d EXCEPT !.bits = 32]

V4(a, b) == Fill(0, 10) \o <<255, 255, a, b, 3, 4>>

V6(prefix, tail) == prefix \o Fill(0, 16 - Len(prefix) - Len(tail)) \o tail

\* the addresses groupKey is called on
GroupRaws ==
    {V4(a, b) : a \in {0, 1, 10, 100, 127, 169, 172, 192, 198, 203, 255}, b \in {0, 18, 64, 168, 254}}
    \cup {V6(<<0, 100, 255, 155>>, <<a, b, 3, 4>>) : a \in {1, 10}, b \in {2, 168}}
    \cup {V6(<<0, 0, 0, 0, 0, 0, 0, 0, 255, 255>>, <<a, b, 3, 4>>) : a \in {1, 10}, b \in {2, 168}}
    \cup {V6(<<32, 2, a, b>>, <<1>>) : a \in {1, 10}, b \in {2, 168}}
    \cup {V6(<<32, 1, 0, 0>>, <<a, b, 3, 4>>) : a \in {1, 254}, b \in {2, 0}}
    \cup {V6(<<253, 135, 216, 126, 235, 67, a>>, <<b>>) : a \in {0, 18, 250}, b \in {1, 2}}
    \cup {V6(<<32, 1, 4, 112, a>>, <<b>>) : a \in {0, 18, 250}, b \in {1, 2}}
    \cup {V6(<<42, 0, 20, 80, a>>, <<b>>) : a \in {0, 18}, b \in {1, 2}}
    \cup {V6(<<a>>, <<b>>) : a \in {0, 252, 253, 254}, b \in {0, 1}}
    \cup {V6(<<254, 128>>, <<1>>), V6(<<32, 1, 13, 184>>, <<1>>), V6(<<32, 1, 0, 16>>, <<1>>),
          V6(<<0, 0, 0, 0, 0, 0, 0, 255, 255>>, <<1>>)}

GkIdle == [pc |-> "idle"]

RegIdle == [table |-> "none"]

GroupCall ==
    /\ gk.pc \in {"idle", "done"}
    /\ \E raw \in GroupRaws : gk' = [pc |-> "classify", raw |-> raw]
    /\ reg' = RegIdle
    /\ UNCHANGED <<addr, pkt, op, wire, json, ipChecksKey>>

GroupClassify ==
    /\ gk.pc = "classify"
    /\ LET c == Classify(gk.raw) IN
         gk' = IF c.teredo
               THEN [pc |-> "done", raw |-> gk.raw, teredo |-> TRUE, ok |-> TRUE,
                     out |-> <<NET_INET4, BitXor(At(gk.raw, 12), 255),
                               BitXor(At(gk.raw, 13), 255)>>]
               ELSE [pc |-> "copy", raw |-> gk.raw, teredo |-> FALSE, type |-> c.type,
                     start |-> c.start, bits |-> c.bits, i |-> 1,
                     out |-> Store(Fill(0, 1 + ((c.bits + 7) \div 8)), 0, c.type)]
    /\ UNCHANGED <<addr, pkt, op, wire, json, ipChecksKey, reg>>

\* one pass of "while (bits >= 8)"
GroupCopy ==
    /\ gk.pc = "copy"
    /\ gk.bits >= 8
    /\ gk' = [gk EXCEPT !.out = Store(gk.out, gk.i, At(gk.raw, gk.start)),
                        !.i = gk.i + 1, !.start = gk.start + 1, !.bits = gk.bits - 8]
    /\ UNCHANGED <<addr, pkt, op, wire, json, ipChecksKey, reg>>

\* the loop is left: "if (bits > 0)" and the partial byte
GroupTail ==
    /\ gk.pc = "copy"
    /\ gk.bits < 8
    /\ gk' = IF gk.bits > 0
             THEN [gk EXCEPT !.out = Store(gk.out, gk.i, TailByte(At(gk.raw, gk.start), gk.bits)),
                             !.i = gk.i + 1, !.pc = "assert"]
             ELSE [gk EXCEPT !.pc = "assert"]
    /\ UNCHANGED <<addr, pkt, op, wire, json, ipChecksKey, reg>>

\* assert(i === out.length); return out
GroupReturn ==
    /\ gk.pc = "assert"
    /\ gk' = [pc |-> "done", raw |-> gk.raw, teredo |-> FALSE, ok |-> (gk.i = Len(gk.out)),
              out |-> gk.out]
    /\ UNCHANGED <<addr, pkt, op, wire, json, ipChecksKey, reg>>

(***************************************************************************)
(* Lookups in the registry: types[name] and typesByVal[code].  gk and reg   *)
(* hold what the latest call left: a lookup is made when no groupKey call  *)
(* is under way, and each call drops the result of the one before.         *)
(***************************************************************************)
LookupNames == typeNames \cup {"SENDADDRV2"}

LookupCodes == 0..Len(typesByVal)

TypeOf ==
    /\ gk.pc \in {"idle", "done"}
    /\ gk' = GkIdle
    /\ \E name \in LookupNames :
         reg' = IF name \in DOMAIN types
                THEN [table |-> "types", name |-> name, found |-> TRUE, code |-> types[name]]
                ELSE [table |-> "types", name |-> name, found |-> FALSE]
    /\ UNCHANGED <<addr, pkt, op, wire, json, ipChecksKey>>

NameOf ==
    /\ gk.pc \in {"idle", "done"}
    /\ gk' = GkIdle
    /\ \E code \in LookupCodes :
         reg' = IF code < Len(typesByVal)
                THEN [table |-> "typesByVal", code |-> code, found |-> TRUE,
                      name |-> At(typesByVal, code)]
                ELSE [table |-> "typesByVal", code |-> code, found |-> FALSE]
    /\ UNCHANGED <<addr, pkt, op, wire, json, ipChecksKey>>

InitPure ==
    /\ addr = NewAddr
    /\ pkt = Undefined
    /\ op = [name |-> "new", ok |-> TRUE, clean |-> TRUE]
    /\ wire = NoWire
    /\ json = Undefined
    /\ ipChecksKey \in BOOLEAN
    /\ gk = GkIdle
    /\ reg = RegIdle

NextPure ==
    \/ GroupCall
    \/ GroupClassify
    \/ GroupCopy
    \/ GroupTail
    \/ GroupReturn
    \/ TypeOf
    \/ NameOf

SpecPure == InitPure /\ [][NextPure]_vars

(***************************************************************************)
(* Claims about groupKey and the registry (SpecPure)                       *)
(***************************************************************************)
\* x OR 0x0F, by arithmetic
LowNibbleSet(x) == x - (x % 16) + 15

\* the rule of C7 that applies to raw, first match in the claim's order
C7_Rule(raw) ==
    IF isLocal(raw) THEN "local"
    ELSE IF ~isRoutable(raw) THEN "unroutable"
    ELSE IF isIPv4(raw) \/ isRFC6145(raw) \/ isRFC6052(raw) THEN "ipv4"
    ELSE IF isRFC3964(raw) THEN "6to4"
    ELSE IF isRFC4380(raw) THEN "teredo"
    ELSE IF isOnion(raw) THEN "onion"
    ELSE IF SubSeq(raw, 1, 4) = <<32, 1, 4, 112>> THEN "he.net"
    ELSE "ipv6"

\* the output C7 gives for each rule
C7_Output(raw) ==
    LET rule == C7_Rule(raw) IN
    CASE rule = "local" -> <<255>>
      [] rule = "unroutable" -> <<NET_NONE>>
      [] rule = "ipv4" -> <<NET_INET4, At(raw, 12), At(raw, 13)>>
      [] rule = "6to4" -> <<NET_INET4, At(raw, 2), At(raw, 3)>>
      [] rule = "teredo" -> <<NET_INET4, 255 - At(raw, 12), 255 - At(raw, 13)>>
      [] rule = "onion" -> <<NET_ONION, LowNibbleSet(At(raw, 6))>>
      [] rule = "he.net" -> <<NET_INET6>> \o SubSeq(raw, 1, 4) \o <<LowNibbleSet(At(raw, 4))>>
      [] rule = "ipv6" -> <<NET_INET6>> \o SubSeq(raw, 1, 4)

\* the group bits of each rule but Teredo
C7_Bits(raw) ==
    LET rule == C7_Rule(raw) IN
    CASE rule \in {"local", "unroutable"} -> 0
      [] rule \in {"ipv4", "6to4"} -> 16
      [] rule = "onion" -> 4
      [] rule = "he.net" -> 36
      [] rule = "ipv6" -> 32

\* C7: groupKey returns, for the first rule that matches the raw address, the
\* bytes that rule gives; outside the Teredo branch the output is
\* 1 + ceil(bits/8) bytes long, the unclassified low bits of a last partial
\* byte are 1, and the assertion i === out.length holds.
C7_GroupKey ==
    gk.pc = "done" =>
      /\ gk.out = C7_Output(gk.raw)
      /\ gk.ok
      /\ C7_Rule(gk.raw) # "teredo" =>
           LET bits == C7_Bits(gk.raw)
               free == 2 ^ (8 - (bits % 8))
           IN /\ Len(gk.out) = 1 + (bits + 7) \div 8
              /\ bits % 8 # 0 => gk.out[Len(gk.out)] % free = free - 1

\* C7 witness: groupKey has returned the 6 bytes of an address in
\* 2001:470::/32 whose fifth byte is 0x12: the last byte is 0x1f.
C7_Witness ==
    /\ gk.pc = "done"
    /\ gk.out = <<NET_INET6, 32, 1, 4, 112, 31>>

\* the codes of the registry
C8_Codes == {types[n] : n \in DOMAIN types}

\* the two tables are inverse to each other, and so is every lookup made
C8_Inverse ==
    /\ \A i \in C8_Codes : /\ i < Len(typesByVal)
                           /\ At(typesByVal, i) \in DOMAIN types
                           /\ types[At(typesByVal, i)] = i
    /\ \A n \in DOMAIN types : /\ types[n] \in 0..(Len(typesByVal) - 1)
                               /\ At(typesByVal, types[n]) = n
    /\ (reg.table = "types" /\ reg.found) => At(typesByVal, reg.code) = reg.name
    /\ (reg.table = "typesByVal" /\ reg.found) => types[reg.name] = reg.code

\* C8 as stated: the registry has exactly 32 entries, with the codes 0..31,
\* and the two tables are inverse bijections.
C8_Registry32 ==
    /\ Cardinality(DOMAIN types) = 32
    /\ Len(typesByVal) = 32
    /\ C8_Codes = 0..31
    /\ C8_Inverse

\* C8 amended: the registry has exactly 33 entries, with the codes 0..32 (DATA
\* is 32), and the two tables are inverse bijections.
C8_Registry ==
    /\ Cardinality(DOMAIN types) = 33
    /\ Len(typesByVal) = 33
    /\ C8_Codes = 0..32
    /\ C8_Inverse

\* C8 witness: typesByVal[32] has been looked up and is "DATA".
C8_Witness ==
    /\ reg.table = "typesByVal" /\ reg.found
    /\ reg.code = 32 /\ reg.name = "DATA"

====
